---- MODULE Spec2Model ----
(***************************************************************************)
(* Model of the aresdb broker's non-aggregate query plan                   *)
(* (broker/query_plan_non_agg.go) and of the dynamic topology watcher      *)
(* (cluster/topology/dynamic.go).                                          *)
(***************************************************************************)
EXTENDS Integers, Sequences, FiniteSets, TLC

\* ---------------------------------------------------------------- bounds
NumNodes == 2
MaxRows == 2
MaxLimit == 2

\* number of QueryRaw attempts of one StreamingScanNode.Execute call
rpcRetries == 2

\* placements handed to validateInstances: instances, shard IDs 0..MaxShards,
\* replication factors 0..MaxReplicas
NumInstances == 2
MaxShards == 2
MaxReplicas == 2

\* placements the upstream watch delivers to the dynamic topology
TopoInstances == 1
TopoMaxShards == 1
TopoMaxReplicas == 1

\* calls of dynamicTopology.Close by users of the topology, and calls of
\* dynamicInitializer.Init that reach newDynamicTopology
MaxCloseCalls == 2
MaxInits == 2

\* leaves of the result trees handed to the merge are 1..MaxLeaf
MaxLeaf == 2

\* NewNonAggQueryPlan: hosts and shards of the assignment, and the capacity
\* of the Shards slice of the input query
NumHosts == 2
NumShards == 2
MaxInputCap == 2

Nodes == 1..NumNodes

\* ---------------------------------------------------------------- variables
VARIABLES
    nodeRows,   \* the number of rows each node holds for the query
    sawFault,   \* some QueryRaw call returned an error or malformed bytes
    limit,      \* NonAggQueryPlan.limit
    flushed,    \* NonAggQueryPlan.flushed
    body,       \* what the ResponseWriter nqp.w has accepted, as tokens
    wfailed,    \* a Write call on nqp.w returned an error
    lateWrite,  \* TRUE once Write was called after an earlier Write failed
    err,        \* the named result err of NonAggQueryPlan.Execute, which the
                \* worker closures assign as well (line 139)
    rpc,        \* position of the reducer (the body of Execute)
    idx,        \* loop variable i of the reducer loop (line 150)
    rdata,      \* res.data of the result being processed (after line 175)
    exitAt,     \* which return statement Execute left through
    ret,        \* the value Execute returned
    wpc,        \* position of each worker goroutine (lines 137-145)
    trial,      \* StreamingScanNode.Execute: trial
    wbs,        \* StreamingScanNode.Execute: bs, then the closure's bs
    serr,       \* StreamingScanNode.Execute: err
    fetchErr,   \* StreamingScanNode.Execute: fetchErr of the latest attempt
    wmsgErr,    \* err field of the struct the worker built at line 141
    cancelled   \* the ctx handed to Execute is cancelled

VARIABLES
    upLatest,        \* services.Watch: the value watch.Get() returns
    upNotify,        \* services.Watch: a notification is pending on watch.C()
    upClosed,        \* services.Watch: the channel watch.C() is closed
    lastValid,       \* the most recent upstream update that passes validation
    tpc,             \* position of newDynamicTopology, then of dynamicTopology.run
    closed,          \* dynamicTopology.closed
    published,       \* the value of dynamicTopology.watchable
    watchCloses,     \* number of calls of t.watch.Close()
    watchableCloses, \* number of calls of t.watchable.Close()
    closeCalls,      \* number of calls of Close by users of the topology
    itopo,           \* dynamicInitializer.topo is set
    initCalls        \* number of calls of Init that ran newDynamicTopology

VARIABLES
    vin,    \* the service handed to getMapFromUpdate / validateInstances
    vpc,    \* which of the two has been called
    vout    \* what the call returned

execVars == <<nodeRows, sawFault, limit, flushed, body, wfailed, lateWrite, err, rpc, idx, rdata,
              exitAt, ret, wpc, trial, wbs, serr, fetchErr, wmsgErr, cancelled>>

topoVars == <<upLatest, upNotify, upClosed, lastValid, tpc, closed, published,
              watchCloses, watchableCloses, closeCalls, itopo, initCalls>>

valVars == <<vin, vpc, vout>>

VARIABLES
    agg,      \* the operator of the resultMergeContext
    lhs,      \* the left result tree
    rhs,      \* the right result tree
    mpc,      \* whether run was called
    merged    \* ctx.err and the tree run returned

mergeVars == <<agg, lhs, rhs, mpc, merged>>

VARIABLES
    heap,        \* the backing arrays of the []int slices, by array number
    inShards,    \* qc.AQLQuery.Shards: the slice header [arr, len, cap]
    inContents,  \* what qc.AQLQuery.Shards held when the call began
    assignment,  \* the result of util.CalculateShardAssignment(topo)
    ppc,         \* position of NewNonAggQueryPlan
    todo,        \* the hosts the range loop has not visited yet
    planNodes    \* plan.nodes: host and query.Shards of each node built

planVars == <<heap, inShards, inContents, assignment, ppc, todo, planNodes>>

vars == <<execVars, topoVars, valVars, mergeVars, planVars>>

\* ---------------------------------------------------------------- bytes
\* A byte string is a sequence of tokens <<kind, node, index>>.
Tok(k, n, j) == <<k, n, j>>
COMMA == Tok(",", 0, 0)
LBRACKET == Tok("[", 0, 0)
RBRACKET == Tok("]", 0, 0)
BAD == Tok("bad", 0, 0)
PRE1 == Tok("{\"headers\":", 0, 0)
HDRS == Tok("headers", 0, 0)
PRE2 == Tok(",\"matrixData\":[", 0, 0)
POST == Tok("]}", 0, 0)
Row(n, j) == Tok("row", n, j)
IsRow(t) == t[1] = "row"

\* a []byte value: nil, or a (possibly empty) token sequence
NilBytes == [isnil |-> TRUE, b |-> <<>>]
Bytes(s) == [isnil |-> FALSE, b |-> s]

\* rows joined by single commas, the way json.Marshal writes the elements of
\* an array and the way a datanode sends a partial
RECURSIVE Join(_)
Join(rows) ==
    IF Len(rows) = 0 THEN <<>>
    ELSE IF Len(rows) = 1 THEN <<rows[1]>>
    ELSE <<rows[1], COMMA>> \o Join(Tail(rows))

\* the partial of node n with k rows, without the enclosing brackets
Partial(n, k) == Join([j \in 1..k |-> Row(n, j)])

\* json.Marshal of a [][]interface{}: "[" rows joined by commas "]"
Marshal(rows) == <<LBRACKET>> \o Join(rows) \o <<RBRACKET>>

\* the text between the brackets is a well-formed list of rows
WellFormed(s) ==
    \/ Len(s) = 0
    \/ /\ Len(s) % 2 = 1
       /\ \A p \in 1..Len(s) : IF p % 2 = 1 THEN IsRow(s[p]) ELSE s[p] = COMMA

\* json.Unmarshal(data, &resultData) of bracketed data: the rows, or an error
\* that leaves resultData nil
Unmarshal(d) ==
    LET inner == SubSeq(d, 2, Len(d) - 1) IN
    IF /\ Len(d) >= 2
       /\ d[1] = LBRACKET
       /\ d[Len(d)] = RBRACKET
       /\ WellFormed(inner)
    THEN [err |-> "nil", rows |-> [j \in 1..((Len(inner) + 1) \div 2) |-> inner[2 * j - 1]]]
    ELSE [err |-> "unmarshal", rows |-> <<>>]

\* x[1 : len(x)-1]
Strip(x) == SubSeq(x, 2, Len(x) - 1)

\* ---------------------------------------------------------------- writer
\* nqp.w.Write(b): ok says whether the call succeeds.  w is the writer state
\* [body, wfailed, lateWrite].
Write(w, b, ok) ==
    [body |-> IF ok THEN w.body \o b ELSE w.body,
     wfailed |-> w.wfailed \/ ~ok,
     lateWrite |-> w.lateWrite \/ w.wfailed]

Writer == [body |-> body, wfailed |-> wfailed, lateWrite |-> lateWrite]

\* the outcomes of the next Write: the response writer of a connection that
\* failed once fails from then on
WriteOutcomes(w) == IF w.wfailed THEN {FALSE} ELSE {TRUE, FALSE}

SetWriter(w) ==
    /\ body' = w.body
    /\ wfailed' = w.wfailed
    /\ lateWrite' = w.lateWrite

\* ---------------------------------------------------------------- plan
getRowsWanted == limit - flushed

\* what QueryRaw can return for node n: the node's partial (an empty one also
\* as nil bytes), malformed bytes, or an error, with or without bytes
QueryRawOutcomes(n) ==
    {[bs |-> Bytes(Partial(n, nodeRows[n])), err |-> "nil"],
     [bs |-> Bytes(<<BAD>>), err |-> "nil"],
     [bs |-> NilBytes, err |-> "fetch"],
     [bs |-> Bytes(Partial(n, nodeRows[n])), err |-> "fetch"]}
    \cup (IF nodeRows[n] = 0 THEN {[bs |-> NilBytes, err |-> "nil"]} ELSE {})

\* QueryRaw(ctx, host, query): a call under a cancelled context returns the
\* context's error
QueryRaw(n) ==
    IF cancelled THEN {o \in QueryRawOutcomes(n) : o.err # "nil"}
    ELSE QueryRawOutcomes(n)

IsFault(o) == o.err # "nil" \/ o.bs.b = <<BAD>>

\* The nodes of a plan are interchangeable (NewNonAggQueryPlan builds one
\* StreamingScanNode per assignment and the reducer takes results in arrival
\* order), so the row counts are enumerated up to a permutation of the nodes.
SortedRows ==
    {r \in [Nodes -> 0..MaxRows] : \A n \in Nodes : n = 1 \/ r[n - 1] >= r[n]}

ExecInit ==
    /\ nodeRows \in SortedRows
    /\ sawFault = FALSE
    /\ limit \in -1..MaxLimit
    /\ flushed = 0
    /\ body = <<>>
    /\ wfailed = FALSE
    /\ lateWrite = FALSE
    /\ err = "nil"
    /\ rpc = "init"
    /\ idx = 0
    /\ rdata = <<>>
    /\ exitAt = "none"
    /\ ret = "none"
    /\ wpc = [n \in Nodes |-> "idle"]
    /\ trial = [n \in Nodes |-> 0]
    /\ wbs = [n \in Nodes |-> NilBytes]
    /\ serr = [n \in Nodes |-> "nil"]
    /\ fetchErr = [n \in Nodes |-> "nil"]
    /\ wmsgErr = [n \in Nodes |-> "nil"]
    /\ cancelled = FALSE

\* Execute, lines 118-146: the pre-amble and the start of the workers.
\* f is the first of the three writes that fails (0: none does).
WritePreamble ==
    /\ rpc = "init"
    /\ \E f \in 0..3 :
        /\ LET pre == <<PRE1, HDRS, PRE2>>
               n == IF f = 0 THEN 3 ELSE f - 1
           IN  /\ body' = body \o SubSeq(pre, 1, n)
               /\ wfailed' = (f > 0)
               /\ lateWrite' = lateWrite
        /\ IF f > 0
           THEN /\ err' = "write"
                /\ rpc' = "ret"
                /\ exitAt' = "preamble"
                /\ wpc' = wpc
           ELSE /\ err' = "nil"
                /\ rpc' = "loop"
                /\ exitAt' = exitAt
                /\ wpc' = [n \in Nodes |-> "query"]
    /\ UNCHANGED <<nodeRows, sawFault, limit, flushed, idx, rdata, ret, trial, wbs,
                   serr, fetchErr, wmsgErr>>

\* the loop goes on after an attempt that returned no error
QueryRawAttemptNoBreak(n) ==
    /\ wpc[n] = "query"
    /\ trial[n] < rpcRetries
    /\ \E o \in QueryRaw(n) :
        LET t == trial[n] + 1
            e == IF o.err # "nil" THEN "fetch" ELSE serr[n]
            again == t < rpcRetries
            result == IF ~o.bs.isnil THEN "nil" ELSE e
        IN  /\ sawFault' = (sawFault \/ IsFault(o))
            /\ trial' = [trial EXCEPT ![n] = t]
            /\ fetchErr' = [fetchErr EXCEPT ![n] = o.err]
            /\ wbs' = [wbs EXCEPT ![n] = o.bs]
            /\ IF again
               THEN /\ serr' = [serr EXCEPT ![n] = e]
                    /\ UNCHANGED <<wpc, err>>
               ELSE /\ serr' = [serr EXCEPT ![n] = result]
                    /\ wpc' = [wpc EXCEPT ![n] = "built"]
                    /\ err' = result
    /\ UNCHANGED <<nodeRows, limit, flushed, body, wfailed, lateWrite, rpc, idx,
                   rdata, exitAt, ret, wmsgErr>>

\* StreamingScanNode.Execute, one pass of the loop of lines 37-58; on leaving
\* the loop, lines 59-62 and the assignment of line 139 to the closure's bs
\* and to the err of NonAggQueryPlan.Execute.
QueryRawAttempt(n) ==
    /\ wpc[n] = "query"
    /\ trial[n] < rpcRetries
    /\ \E o \in QueryRaw(n) :
        LET t == trial[n] + 1
            e == IF o.err # "nil" THEN "fetch" ELSE serr[n]
            again == o.err # "nil" /\ t < rpcRetries
            result == IF ~o.bs.isnil THEN "nil" ELSE e
        IN  /\ sawFault' = (sawFault \/ IsFault(o))
            /\ trial' = [trial EXCEPT ![n] = t]
            /\ fetchErr' = [fetchErr EXCEPT ![n] = o.err]
            /\ wbs' = [wbs EXCEPT ![n] = o.bs]
            /\ IF again
               THEN /\ serr' = [serr EXCEPT ![n] = e]
                    /\ UNCHANGED <<wpc, err>>
               ELSE /\ serr' = [serr EXCEPT ![n] = result]
                    /\ wpc' = [wpc EXCEPT ![n] = "built"]
                    /\ err' = result
    /\ UNCHANGED <<nodeRows, limit, flushed, body, wfailed, lateWrite, rpc, idx,
                   rdata, exitAt, ret, wmsgErr>>

\* a worker that sees an error ends without sending a result
BuildResultDropsError(n) ==
    /\ wpc[n] = "built"
    /\ wmsgErr' = [wmsgErr EXCEPT ![n] = "nil"]
    /\ wpc' = [wpc EXCEPT ![n] = IF err # "nil" THEN "done" ELSE "send"]
    /\ trial' = [trial EXCEPT ![n] = 0]
    /\ serr' = [serr EXCEPT ![n] = "nil"]
    /\ fetchErr' = [fetchErr EXCEPT ![n] = "nil"]
    /\ UNCHANGED <<nodeRows, sawFault, limit, flushed, body, wfailed, lateWrite,
                   err, rpc, idx, rdata, exitAt, ret, wbs>>

\* worker closure, lines 141-144: the struct literal reads bs and err; the
\* locals of the StreamingScanNode.Execute call that returned are gone
BuildResult(n) ==
    /\ wpc[n] = "built"
    /\ wmsgErr' = [wmsgErr EXCEPT ![n] = err]
    /\ wpc' = [wpc EXCEPT ![n] = "send"]
    /\ trial' = [trial EXCEPT ![n] = 0]
    /\ serr' = [serr EXCEPT ![n] = "nil"]
    /\ fetchErr' = [fetchErr EXCEPT ![n] = "nil"]
    /\ UNCHANGED <<nodeRows, sawFault, limit, flushed, body, wfailed, lateWrite,
                   err, rpc, idx, rdata, exitAt, ret, wbs>>

\* the separator is written after the last partial as well
WriteCommaAlways(w, f) ==
    IF ~(limit - f = 0)
    THEN {Write(w, <<COMMA>>, ok) : ok \in WriteOutcomes(w)}
    ELSE {w}

\* line 201-203 after a partial was handled with the new flushed count f
WriteComma(w, f) ==
    IF ~(limit - f = 0) /\ idx # NumNodes - 1
    THEN {Write(w, <<COMMA>>, ok) : ok \in WriteOutcomes(w)}
    ELSE {w}

\* Execute, lines 150-177: the loop test, the receive from the unbuffered
\* channel, and the handling of the result up to the next access to err.  The
\* sending goroutine ends with the send, and its locals with it.
Receive ==
    /\ rpc = "loop"
    /\ idx < NumNodes
    /\ getRowsWanted # 0
    /\ \E n \in Nodes :
        /\ wpc[n] = "send"
        /\ wpc' = [wpc EXCEPT ![n] = "done"]
        /\ wbs' = [wbs EXCEPT ![n] = NilBytes]
        /\ wmsgErr' = [wmsgErr EXCEPT ![n] = "nil"]
        /\ IF wmsgErr[n] # "nil"
           THEN /\ err' = wmsgErr[n]
                /\ rpc' = "ret"
                /\ exitAt' = "workerErr"
                /\ UNCHANGED <<body, wfailed, lateWrite, idx, rdata>>
           ELSE IF limit < 0
           THEN /\ \E ok \in WriteOutcomes(Writer) :
                    \E w \in WriteComma(Write(Writer, wbs[n].b, ok), flushed) :
                        SetWriter(w)
                /\ idx' = idx + 1
                /\ UNCHANGED <<err, rpc, exitAt, rdata>>
           ELSE /\ rdata' = <<LBRACKET>> \o wbs[n].b \o <<RBRACKET>>
                /\ err' = Unmarshal(rdata').err
                /\ rpc' = "unmarshalled"
                /\ UNCHANGED <<body, wfailed, lateWrite, idx, exitAt>>
    /\ UNCHANGED <<nodeRows, sawFault, limit, flushed, ret, trial, serr, fetchErr>>

\* Execute, lines 150-154: the loop ends, or breaks on a satisfied limit
LeaveLoop ==
    /\ rpc = "loop"
    /\ idx >= NumNodes \/ getRowsWanted = 0
    /\ rpc' = "post"
    /\ UNCHANGED <<nodeRows, sawFault, limit, flushed, body, wfailed, lateWrite,
                   err, idx, rdata, exitAt, ret, wpc, trial, wbs, serr,
                   fetchErr, wmsgErr>>

\* an Unmarshal error breaks out of the loop instead of returning
AfterUnmarshalBreaks ==
    /\ rpc = "unmarshalled"
    /\ LET resultData == Unmarshal(rdata).rows IN
       IF err # "nil"
       THEN /\ rpc' = "post"
            /\ exitAt' = "unmarshal"
            /\ UNCHANGED <<body, wfailed, lateWrite, flushed, idx, err>>
       ELSE IF Len(resultData) <= getRowsWanted
       THEN /\ \E ok \in WriteOutcomes(Writer) :
                \E w \in WriteComma(Write(Writer, Strip(rdata), ok),
                                    flushed + Len(resultData)) :
                    SetWriter(w)
            /\ flushed' = flushed + Len(resultData)
            /\ idx' = idx + 1
            /\ rpc' = "loop"
            /\ UNCHANGED <<err, exitAt>>
       ELSE /\ err' = "nil"
            /\ rpc' = "marshalled"
            /\ UNCHANGED <<body, wfailed, lateWrite, flushed, idx, exitAt>>
    /\ UNCHANGED <<nodeRows, sawFault, limit, rdata, ret, wpc, trial, wbs, serr,
                   fetchErr, wmsgErr>>

\* Execute, lines 179-191: the test of err after Unmarshal, the whole batch
\* (lines 183-186, 201-203) or the call of Marshal for the cut batch
AfterUnmarshal ==
    /\ rpc = "unmarshalled"
    /\ LET resultData == Unmarshal(rdata).rows IN
       IF err # "nil"
       THEN /\ rpc' = "ret"
            /\ exitAt' = "unmarshal"
            /\ UNCHANGED <<body, wfailed, lateWrite, flushed, idx, err>>
       ELSE IF Len(resultData) <= getRowsWanted
       THEN /\ \E ok \in WriteOutcomes(Writer) :
                \E w \in WriteComma(Write(Writer, Strip(rdata), ok),
                                    flushed + Len(resultData)) :
                    SetWriter(w)
            /\ flushed' = flushed + Len(resultData)
            /\ idx' = idx + 1
            /\ rpc' = "loop"
            /\ UNCHANGED <<err, exitAt>>
       ELSE /\ err' = "nil"
            /\ rpc' = "marshalled"
            /\ UNCHANGED <<body, wfailed, lateWrite, flushed, idx, exitAt>>
    /\ UNCHANGED <<nodeRows, sawFault, limit, rdata, ret, wpc, trial, wbs, serr,
                   fetchErr, wmsgErr>>

\* the whole batch is flushed, whatever the limit leaves room for
rowsToFlushWholeBatch == Len(Unmarshal(rdata).rows)

\* Execute, line 188
rowsToFlush == getRowsWanted

\* Execute, lines 192-203: the test of err after Marshal and the cut batch
AfterMarshal ==
    /\ rpc = "marshalled"
    /\ LET dataToFlush == SubSeq(Unmarshal(rdata).rows, 1, rowsToFlush)
           bs == Marshal(dataToFlush)
       IN
       IF err # "nil"
       THEN /\ rpc' = "ret"
            /\ exitAt' = "marshal"
            /\ UNCHANGED <<body, wfailed, lateWrite, flushed, idx>>
       ELSE /\ \E ok \in WriteOutcomes(Writer) :
                \E w \in WriteComma(Write(Writer, Strip(bs), ok),
                                    flushed + rowsToFlush) :
                    SetWriter(w)
            /\ flushed' = flushed + rowsToFlush
            /\ idx' = idx + 1
            /\ rpc' = "loop"
            /\ exitAt' = exitAt
    /\ UNCHANGED <<nodeRows, sawFault, limit, err, rdata, ret, wpc, trial, wbs,
                   serr, fetchErr, wmsgErr>>

\* Execute, line 206: the post-amble
WritePostamble ==
    /\ rpc = "post"
    /\ \E ok \in WriteOutcomes(Writer) :
        /\ SetWriter(Write(Writer, <<POST>>, ok))
        /\ err' = IF ok THEN "nil" ELSE "write"
    /\ rpc' = "ret"
    /\ exitAt' = "end"
    /\ UNCHANGED <<nodeRows, sawFault, limit, flushed, idx, rdata, ret, wpc, trial,
                   wbs, serr, fetchErr, wmsgErr>>

\* Execute returns the value its named result err holds at that moment
Return ==
    /\ rpc = "ret"
    /\ ret' = err
    /\ rpc' = "done"
    /\ UNCHANGED <<nodeRows, sawFault, limit, flushed, body, wfailed, lateWrite,
                   err, idx, rdata, exitAt, wpc, trial, wbs, serr, fetchErr,
                   wmsgErr>>

ExecNext ==
    \/ WritePreamble /\ UNCHANGED <<cancelled, topoVars, valVars, mergeVars, planVars>>
    \/ \E n \in Nodes : QueryRawAttempt(n) /\ UNCHANGED <<cancelled, topoVars, valVars, mergeVars, planVars>>
    \/ \E n \in Nodes : BuildResult(n) /\ UNCHANGED <<cancelled, topoVars, valVars, mergeVars, planVars>>
    \/ Receive /\ UNCHANGED <<cancelled, topoVars, valVars, mergeVars, planVars>>
    \/ LeaveLoop /\ UNCHANGED <<cancelled, topoVars, valVars, mergeVars, planVars>>
    \/ AfterUnmarshal /\ UNCHANGED <<cancelled, topoVars, valVars, mergeVars, planVars>>
    \/ AfterMarshal /\ UNCHANGED <<cancelled, topoVars, valVars, mergeVars, planVars>>
    \/ WritePostamble /\ UNCHANGED <<cancelled, topoVars, valVars, mergeVars, planVars>>
    \/ Return /\ UNCHANGED <<cancelled, topoVars, valVars, mergeVars, planVars>>

\* the caller of Execute cancels ctx (a client that went away, a deadline);
\* nothing in Execute cancels it
CancelContext ==
    /\ rpc # "idle"
    /\ ~cancelled
    /\ cancelled' = TRUE
    /\ UNCHANGED <<nodeRows, sawFault, limit, flushed, body, wfailed, lateWrite,
                   err, rpc, idx, rdata, exitAt, ret, wpc, trial, wbs, serr,
                   fetchErr, wmsgErr>>

CancelNext ==
    \/ CancelContext /\ UNCHANGED <<topoVars, valVars, mergeVars, planVars>>
    \/ ExecNext

\* ---------------------------------------------------------------- placement
\* the shard list of an instance: nil, or the set of the shard IDs it declares
NoShards == [isnil |-> TRUE, ids |-> {}]
ShardLists(S) == {NoShards} \cup {[isnil |-> FALSE, ids |-> x] : x \in SUBSET (0..S)}

\* a nil service, or one without replication, sharding or instances
NilService == [nonnil |-> FALSE, replicas |-> 0, numShards |-> 0, instances |-> <<>>]

ServicesOf(I, S, R) ==
    {NilService} \cup
    [nonnil : {TRUE}, replicas : 0..R, numShards : 0..S,
     instances : [1..I -> ShardLists(S)]]

NoMap == [set |-> FALSE, replicas |-> 0, shardSet |-> <<>>, hostShardSets |-> <<>>]

\* validateInstances, lines 235-237: every shard of one instance is counted
CountInstance(m, ids) ==
    [s \in DOMAIN m \cup ids |->
        (IF s \in DOMAIN m THEN m[s] ELSE 0) + (IF s \in ids THEN 1 ELSE 0)]

\* an instance without a shard list counts as one that declares no shard
RECURSIVE CountShardsSkipNil(_, _, _)
CountShardsSkipNil(instances, k, m) ==
    IF k > Len(instances) THEN [err |-> "nil", m |-> m]
    ELSE IF instances[k].isnil THEN CountShardsSkipNil(instances, k + 1, m)
    ELSE CountShardsSkipNil(instances, k + 1, CountInstance(m, instances[k].ids))

\* validateInstances, lines 230-238: the map m after instances k.., or the
\* error of the first instance without a shard list
RECURSIVE CountShards(_, _, _)
CountShards(instances, k, m) ==
    IF k > Len(instances) THEN [err |-> "nil", m |-> m]
    ELSE IF instances[k].isnil THEN [err |-> "InstanceHasNoShards", m |-> m]
    ELSE CountShards(instances, k + 1, CountInstance(m, instances[k].ids))

\* the replica count of an expected shard is not tested
RECURSIVE CheckShardsNoReplicaTest(_, _, _, _)
CheckShardsNoReplicaTest(m, i, replicas, numShards) ==
    IF i >= numShards
    THEN IF Cardinality(DOMAIN m) > 0 THEN "UnexpectedShard" ELSE "nil"
    ELSE IF i \notin DOMAIN m THEN "MissingShard"
    ELSE CheckShardsNoReplicaTest([s \in DOMAIN m \ {i} |-> m[s]], i + 1,
                                  replicas, numShards)

\* the count is tested before the presence, a missing shard counting zero
RECURSIVE CheckShardsCountFirst(_, _, _, _)
CheckShardsCountFirst(m, i, replicas, numShards) ==
    IF i >= numShards
    THEN IF Cardinality(DOMAIN m) > 0 THEN "UnexpectedShard" ELSE "nil"
    ELSE IF (IF i \in DOMAIN m THEN m[i] ELSE 0) < replicas THEN "NotEnoughReplicas"
    ELSE IF i \notin DOMAIN m THEN "MissingShard"
    ELSE CheckShardsCountFirst([s \in DOMAIN m \ {i} |-> m[s]], i + 1,
                               replicas, numShards)

\* what is left in m after the expected IDs is not tested
RECURSIVE CheckShardsNoResidualTest(_, _, _, _)
CheckShardsNoResidualTest(m, i, replicas, numShards) ==
    IF i >= numShards THEN "nil"
    ELSE IF i \notin DOMAIN m THEN "MissingShard"
    ELSE IF m[i] < replicas THEN "NotEnoughReplicas"
    ELSE CheckShardsNoResidualTest([s \in DOMAIN m \ {i} |-> m[s]], i + 1,
                                   replicas, numShards)

\* validateInstances, lines 239-256: the expected IDs from i on, in order,
\* then the test of what is left in m
RECURSIVE CheckShards(_, _, _, _)
CheckShards(m, i, replicas, numShards) ==
    IF i >= numShards
    THEN IF Cardinality(DOMAIN m) > 0 THEN "UnexpectedShard" ELSE "nil"
    ELSE IF i \notin DOMAIN m THEN "MissingShard"
    ELSE IF m[i] < replicas THEN "NotEnoughReplicas"
    ELSE CheckShards([s \in DOMAIN m \ {i} |-> m[s]], i + 1, replicas, numShards)

validateInstances(instances, replicas, numShards) ==
    LET counted == CountShards(instances, 1, [s \in {} |-> 0])
        e == IF counted.err # "nil" THEN counted.err
             ELSE CheckShards(counted.m, 0, replicas, numShards)
    IN  [err |-> e,
         ids |-> IF e = "nil" THEN [j \in 1..numShards |-> j - 1] ELSE <<>>]

\* NewHostShardSetFromServiceInstance: needs the instance's shard list
NewHostShardSetFromServiceInstance(instance) ==
    [err |-> IF instance.isnil THEN "InstanceHasNoShards" ELSE "nil",
     hs |-> instance.ids]

getStaticOptions(service) ==
    IF ~service.nonnil THEN [err |-> "InvalidService", to |-> NoMap]
    ELSE
    LET v == validateInstances(service.instances, service.replicas, service.numShards)
        hss == [k \in 1..Len(service.instances) |->
                   NewHostShardSetFromServiceInstance(service.instances[k])]
    IN  IF v.err # "nil" THEN [err |-> v.err, to |-> NoMap]
        ELSE IF \E k \in 1..Len(hss) : hss[k].err # "nil"
        THEN [err |-> "InstanceHasNoShards", to |-> NoMap]
        ELSE [err |-> "nil",
              to |-> [set |-> TRUE,
                      replicas |-> service.replicas,
                      shardSet |-> v.ids,
                      hostShardSets |-> [k \in 1..Len(hss) |-> hss[k].hs]]]

\* getMapFromUpdate: NewStaticMap keeps the options
getMapFromUpdate(service) ==
    LET o == getStaticOptions(service) IN [err |-> o.err, m |-> o.to]

\* ---------------------------------------------------------------- validation
ValidateServices == ServicesOf(NumInstances, MaxShards, MaxReplicas)

NoResult == [called |-> "none", err |-> "nil", ids |-> <<>>, m |-> NoMap]

ValInit ==
    /\ vin \in ValidateServices
    /\ vpc = "ready"
    /\ vout = NoResult

ValIdle ==
    /\ vin = NilService
    /\ vpc = "idle"
    /\ vout = NoResult

CallValidateInstances ==
    /\ vpc = "ready"
    /\ vin.nonnil
    /\ LET v == validateInstances(vin.instances, vin.replicas, vin.numShards) IN
       vout' = [called |-> "validateInstances", err |-> v.err, ids |-> v.ids, m |-> NoMap]
    /\ vpc' = "done"
    /\ UNCHANGED vin

CallGetMapFromUpdate ==
    /\ vpc = "ready"
    /\ LET g == getMapFromUpdate(vin) IN
       vout' = [called |-> "getMapFromUpdate", err |-> g.err, ids |-> <<>>, m |-> g.m]
    /\ vpc' = "done"
    /\ UNCHANGED vin

ValNext ==
    \/ CallValidateInstances /\ UNCHANGED <<execVars, topoVars, mergeVars, planVars>>
    \/ CallGetMapFromUpdate /\ UNCHANGED <<execVars, topoVars, mergeVars, planVars>>

\* ---------------------------------------------------------------- topology
TopoServices == ServicesOf(TopoInstances, TopoMaxShards, TopoMaxReplicas)

TopoInit ==
    /\ upLatest = NilService
    /\ upNotify = FALSE
    /\ upClosed = FALSE
    /\ lastValid = NoMap
    /\ tpc = "new"
    /\ closed = FALSE
    /\ published = NoMap
    /\ watchCloses = 0
    /\ watchableCloses = 0
    /\ closeCalls = 0
    /\ itopo = FALSE
    /\ initCalls = 1

TopoIdle ==
    /\ upLatest = NilService
    /\ upNotify = FALSE
    /\ upClosed = FALSE
    /\ lastValid = NoMap
    /\ tpc = "idle"
    /\ closed = FALSE
    /\ published = NoMap
    /\ watchCloses = 0
    /\ watchableCloses = 0
    /\ closeCalls = 0
    /\ itopo = FALSE
    /\ initCalls = 0

ExecIdle ==
    /\ nodeRows = [n \in Nodes |-> 0]
    /\ sawFault = FALSE
    /\ limit = 0
    /\ flushed = 0
    /\ body = <<>>
    /\ wfailed = FALSE
    /\ lateWrite = FALSE
    /\ err = "nil"
    /\ rpc = "idle"
    /\ idx = 0
    /\ rdata = <<>>
    /\ exitAt = "none"
    /\ ret = "none"
    /\ wpc = [n \in Nodes |-> "idle"]
    /\ trial = [n \in Nodes |-> 0]
    /\ wbs = [n \in Nodes |-> NilBytes]
    /\ serr = [n \in Nodes |-> "nil"]
    /\ fetchErr = [n \in Nodes |-> "nil"]
    /\ wmsgErr = [n \in Nodes |-> "nil"]
    /\ cancelled = FALSE

\* the placement store changes the service: the watch keeps the latest value
\* and leaves one notification on its channel
UpstreamUpdate ==
    /\ tpc # "idle"
    /\ ~upClosed
    /\ \E s \in TopoServices :
        /\ upLatest' = s
        /\ lastValid' = IF getMapFromUpdate(s).err = "nil"
                        THEN getMapFromUpdate(s).m ELSE lastValid
    /\ upNotify' = TRUE
    /\ UNCHANGED <<upClosed, tpc, closed, published, watchCloses, watchableCloses>>
    /\ UNCHANGED <<closeCalls, itopo, initCalls>>

\* the placement store closes the watch channel
UpstreamClose ==
    /\ tpc # "idle"
    /\ ~upClosed
    /\ upClosed' = TRUE
    /\ UNCHANGED <<upLatest, upNotify, lastValid, tpc, closed, published,
                   watchCloses, watchableCloses>>
    /\ UNCHANGED <<closeCalls, itopo, initCalls>>

\* newDynamicTopology, line 100: <-watch.C()
NewReceive ==
    /\ tpc = "new"
    /\ upNotify \/ upClosed
    /\ upNotify' = FALSE
    /\ tpc' = "newGot"
    /\ UNCHANGED <<upLatest, upClosed, lastValid, closed, published,
                   watchCloses, watchableCloses>>
    /\ UNCHANGED <<closeCalls, itopo, initCalls>>

\* the error of the first value is ignored: the topology is built, cached
\* and its loop started all the same
NewGetIgnoresError ==
    /\ tpc = "newGot"
    /\ LET g == getMapFromUpdate(upLatest) IN
       /\ published' = g.m
       /\ tpc' = "run"
       /\ itopo' = TRUE
    /\ UNCHANGED <<upLatest, upNotify, upClosed, lastValid, closed,
                   watchCloses, watchableCloses, closeCalls, initCalls>>

\* newDynamicTopology, lines 103-120, and the rest of the Init call that
\* holds the initializer's lock (lines 64-69)
NewGet ==
    /\ tpc = "newGot"
    /\ LET g == getMapFromUpdate(upLatest) IN
       IF g.err # "nil"
       THEN /\ tpc' = "failed"
            /\ UNCHANGED <<published, itopo>>
       ELSE /\ published' = g.m
            /\ tpc' = "run"
            /\ itopo' = TRUE
    /\ UNCHANGED <<upLatest, upNotify, upClosed, lastValid, closed,
                   watchCloses, watchableCloses, closeCalls, initCalls>>

\* dynamicInitializer.Init, lines 55-63, and newDynamicTopology, lines 88-99:
\* a call after a failed one finds no cached topology and opens a new watch
InitRetry ==
    /\ tpc = "failed"
    /\ ~itopo
    /\ initCalls < MaxInits
    /\ initCalls' = initCalls + 1
    /\ tpc' = "new"
    /\ upLatest' = NilService
    /\ upNotify' = FALSE
    /\ upClosed' = FALSE
    /\ UNCHANGED <<lastValid, closed, published, watchCloses, watchableCloses,
                   closeCalls, itopo>>

\* Close without the test of t.closed
DoCloseAgain ==
    /\ closed' = TRUE
    /\ watchCloses' = watchCloses + 1
    /\ watchableCloses' = watchableCloses + 1
    /\ upClosed' = TRUE

\* dynamicTopology.Close, lines 158-170, under the lock; watch.Close() closes
\* the channel of the watch
DoClose ==
    IF closed
    THEN UNCHANGED <<closed, watchCloses, watchableCloses, upClosed>>
    ELSE /\ closed' = TRUE
         /\ watchCloses' = watchCloses + 1
         /\ watchableCloses' = watchableCloses + 1
         /\ upClosed' = TRUE

\* run, line 131: the loop test
RunTest ==
    /\ tpc = "run"
    /\ tpc' = IF closed THEN "stopped" ELSE "recv"
    /\ UNCHANGED <<upLatest, upNotify, upClosed, lastValid, closed, published,
                   watchCloses, watchableCloses>>
    /\ UNCHANGED <<closeCalls, itopo, initCalls>>

\* the loop breaks on a closed channel without closing the topology
RunReceiveBreakOnly ==
    /\ tpc = "recv"
    /\ upNotify \/ upClosed
    /\ IF upNotify
       THEN /\ upNotify' = FALSE
            /\ tpc' = "got"
       ELSE /\ tpc' = "stopped"
            /\ UNCHANGED upNotify
    /\ UNCHANGED <<closed, watchCloses, watchableCloses, upClosed>>
    /\ UNCHANGED <<upLatest, lastValid, published>>
    /\ UNCHANGED <<closeCalls, itopo, initCalls>>

\* run, lines 132-135: the receive; a closed channel still hands out the
\* notification it holds
RunReceive ==
    /\ tpc = "recv"
    /\ upNotify \/ upClosed
    /\ IF upNotify
       THEN /\ upNotify' = FALSE
            /\ tpc' = "got"
            /\ UNCHANGED <<closed, watchCloses, watchableCloses, upClosed>>
       ELSE /\ DoClose
            /\ tpc' = "stopped"
            /\ UNCHANGED upNotify
    /\ UNCHANGED <<upLatest, lastValid, published>>
    /\ UNCHANGED <<closeCalls, itopo, initCalls>>

\* a value that fails validation clears the published snapshot
RunGetClearsOnError ==
    /\ tpc = "got"
    /\ LET g == getMapFromUpdate(upLatest) IN
       IF watchableCloses > 0
       THEN UNCHANGED published
       ELSE published' = g.m
    /\ tpc' = "run"
    /\ UNCHANGED <<upLatest, upNotify, upClosed, lastValid, closed,
                   watchCloses, watchableCloses>>
    /\ UNCHANGED <<closeCalls, itopo, initCalls>>

\* run, lines 137-142; Update on a closed watchable changes nothing
RunGet ==
    /\ tpc = "got"
    /\ LET g == getMapFromUpdate(upLatest) IN
       IF g.err # "nil" \/ watchableCloses > 0
       THEN UNCHANGED published
       ELSE published' = g.m
    /\ tpc' = "run"
    /\ UNCHANGED <<upLatest, upNotify, upClosed, lastValid, closed,
                   watchCloses, watchableCloses>>
    /\ UNCHANGED <<closeCalls, itopo, initCalls>>

\* a user of the topology calls Close
Close ==
    /\ tpc \in {"run", "recv", "got", "stopped"}
    /\ closeCalls < MaxCloseCalls
    /\ closeCalls' = closeCalls + 1
    /\ DoClose
    /\ UNCHANGED <<upLatest, upNotify, lastValid, tpc, published, itopo, initCalls>>

\* a step of the goroutine started at line 119
run == (RunTest \/ RunReceive \/ RunGet) /\ UNCHANGED <<execVars, valVars, mergeVars, planVars>>

TopoNext ==
    \/ UpstreamUpdate /\ UNCHANGED <<execVars, valVars, mergeVars, planVars>>
    \/ UpstreamClose /\ UNCHANGED <<execVars, valVars, mergeVars, planVars>>
    \/ NewReceive /\ UNCHANGED <<execVars, valVars, mergeVars, planVars>>
    \/ NewGet /\ UNCHANGED <<execVars, valVars, mergeVars, planVars>>
    \/ InitRetry /\ UNCHANGED <<execVars, valVars, mergeVars, planVars>>
    \/ RunTest /\ UNCHANGED <<execVars, valVars, mergeVars, planVars>>
    \/ RunReceive /\ UNCHANGED <<execVars, valVars, mergeVars, planVars>>
    \/ RunGet /\ UNCHANGED <<execVars, valVars, mergeVars, planVars>>
    \/ Close /\ UNCHANGED <<execVars, valVars, mergeVars, planVars>>

\* ---------------------------------------------------------------- merge
\* An AQLQueryResult of an aggregate query with two dimensions: a mapping
\* from the values of the first dimension to mappings from the values of the
\* second dimension to numbers.  A mapping is a function on its key set; a
\* tree of depth 0 is a number.
OuterKeys == {"1234", "5678"}
InnerKeys == {"foo", "bar"}

Maps(keys, kids) == UNION {[K -> kids] : K \in SUBSET keys}

Leaves == 1..MaxLeaf
InnerTrees == Maps(InnerKeys, Leaves)
ResultTrees == Maps(OuterKeys, InnerTrees)
EmptyTree == [k \in {} |-> 0]

AggTypes == {"Sum", "Count", "Min", "Max", "Avg"}
Lenient(op) == op \in {"Sum", "Count", "Min", "Max"}

\* the quotient a / b of the Avg combiner, as numerator and denominator
Quotient(a, b) == [num |-> a, den |-> b]

\* every operator but Avg adds the leaves
MergeLeafAlwaysSum(op, a, b) ==
    CASE op \in {"Sum", "Count", "Min", "Max"} -> a + b
      [] op = "Avg" -> Quotient(a, b)

\* Min and Max keep the left leaf
MergeLeafKeepLeft(op, a, b) ==
    CASE op \in {"Sum", "Count"} -> a + b
      [] op \in {"Min", "Max"} -> a
      [] op = "Avg" -> Quotient(a, b)

\* Avg divides the right leaf by the left one
MergeLeafAvgSwapped(op, a, b) ==
    CASE op \in {"Sum", "Count"} -> a + b
      [] op = "Min" -> (IF a <= b THEN a ELSE b)
      [] op = "Max" -> (IF a >= b THEN a ELSE b)
      [] op = "Avg" -> Quotient(b, a)

\* the combiner of two leaves at the same path
MergeLeaf(op, a, b) ==
    CASE op \in {"Sum", "Count"} -> a + b
      [] op = "Min" -> (IF a <= b THEN a ELSE b)
      [] op = "Max" -> (IF a >= b THEN a ELSE b)
      [] op = "Avg" -> Quotient(a, b)

Merged(e, t) == [err |-> e, tree |-> t]

\* only the keys present on both sides are kept
RECURSIVE MergeTreeCommonKeys(_, _, _, _)
MergeTreeCommonKeys(op, d, x, y) ==
    IF d = 0 THEN Merged("nil", MergeLeaf(op, x, y))
    ELSE IF ~Lenient(op) /\ DOMAIN x # DOMAIN y
    THEN Merged("error calculating avg", EmptyTree)
    ELSE
    LET kid(k) == MergeTreeCommonKeys(op, d - 1, x[k], y[k])
        keys == DOMAIN x \cap DOMAIN y
    IN  IF \E k \in keys : kid(k).err # "nil"
        THEN Merged((CHOOSE k \in keys : kid(k).err # "nil").err, EmptyTree)
        ELSE Merged("nil", [k \in keys |-> kid(k).tree])

\* the key sets are not compared under a strict operator
RECURSIVE MergeTreeNoShapeTest(_, _, _, _)
MergeTreeNoShapeTest(op, d, x, y) ==
    IF d = 0 THEN Merged("nil", MergeLeaf(op, x, y))
    ELSE
    LET kid(k) == IF k \in DOMAIN x /\ k \in DOMAIN y
                  THEN MergeTreeNoShapeTest(op, d - 1, x[k], y[k])
                  ELSE IF k \in DOMAIN x THEN Merged("nil", x[k])
                  ELSE Merged("nil", y[k])
        keys == DOMAIN x \cup DOMAIN y
    IN  IF \E k \in keys : kid(k).err # "nil"
        THEN Merged("error calculating avg", EmptyTree)
        ELSE Merged("nil", [k \in keys |-> kid(k).tree])

\* the walk follows the keys of the left tree only
RECURSIVE MergeTreeLeftKeys(_, _, _, _)
MergeTreeLeftKeys(op, d, x, y) ==
    IF d = 0 THEN Merged("nil", MergeLeaf(op, x, y))
    ELSE IF ~Lenient(op) /\ DOMAIN x # DOMAIN y
    THEN Merged("error calculating avg", EmptyTree)
    ELSE
    LET kid(k) == IF k \in DOMAIN y
                  THEN MergeTreeLeftKeys(op, d - 1, x[k], y[k])
                  ELSE Merged("nil", x[k])
        keys == DOMAIN x
    IN  IF \E k \in keys : kid(k).err # "nil"
        THEN Merged("error calculating avg", EmptyTree)
        ELSE Merged("nil", [k \in keys |-> kid(k).tree])

\* the walk of two trees of depth d: a lenient operator keeps the keys of
\* both sides and the subtree of a key that one side lacks, a strict one
\* fails on different key sets; the first error ends the walk and no tree is
\* returned
RECURSIVE MergeTree(_, _, _, _)
MergeTree(op, d, x, y) ==
    IF d = 0 THEN Merged("nil", MergeLeaf(op, x, y))
    ELSE IF ~Lenient(op) /\ DOMAIN x # DOMAIN y
    THEN Merged("error calculating avg", EmptyTree)
    ELSE
    LET kid(k) == IF k \in DOMAIN x /\ k \in DOMAIN y
                  THEN MergeTree(op, d - 1, x[k], y[k])
                  ELSE IF k \in DOMAIN x THEN Merged("nil", x[k])
                  ELSE Merged("nil", y[k])
        keys == DOMAIN x \cup DOMAIN y
    IN  IF \E k \in keys : kid(k).err # "nil"
        THEN Merged("error calculating avg", EmptyTree)
        ELSE Merged("nil", [k \in keys |-> kid(k).tree])

\* newResultMergeContext(agg).run(lhs, rhs)
MergeInit ==
    /\ agg \in AggTypes
    /\ lhs \in ResultTrees
    /\ rhs \in ResultTrees
    /\ mpc = "ready"
    /\ merged = Merged("nil", EmptyTree)

MergeIdle ==
    /\ agg = "Sum"
    /\ lhs = EmptyTree
    /\ rhs = EmptyTree
    /\ mpc = "idle"
    /\ merged = Merged("nil", EmptyTree)

Run ==
    /\ mpc = "ready"
    /\ merged' = MergeTree(agg, 2, lhs, rhs)
    /\ mpc' = "done"
    /\ UNCHANGED <<agg, lhs, rhs>>

MergeNext == Run /\ UNCHANGED <<execVars, topoVars, valVars, planVars>>

\* ---------------------------------------------------------------- plan construction
Hosts == 1..NumHosts
ShardIDs == 0..(NumShards - 1)

\* a []int: the backing array, the length and the capacity
Slice(a, l, c) == [arr |-> a, len |-> l, cap |-> c]

\* the elements a slice shows
Contents(h, sl) == SubSeq(h[sl.arr], 1, sl.len)

\* append(sl, x) on heap h: in place when the capacity allows, else into a
\* new array of twice the capacity
AppendOne(st, x) ==
    IF st.sl.len < st.sl.cap
    THEN [sl |-> Slice(st.sl.arr, st.sl.len + 1, st.sl.cap),
          h |-> [st.h EXCEPT ![st.sl.arr][st.sl.len + 1] = x]]
    ELSE LET c == IF st.sl.cap = 0 THEN 1 ELSE 2 * st.sl.cap
             a == [p \in 1..c |->
                     IF p <= st.sl.len THEN st.h[st.sl.arr][p]
                     ELSE IF p = st.sl.len + 1 THEN x ELSE 0]
         IN  [sl |-> Slice(Len(st.h) + 1, st.sl.len + 1, c),
              h |-> Append(st.h, a)]

\* lines 86-88: the shards of one host are appended in order
RECURSIVE AppendAll(_, _)
AppendAll(st, xs) ==
    IF Len(xs) = 0 THEN st
    ELSE AppendAll(AppendOne(st, Head(xs)), Tail(xs))

\* the shards of a set in ascending order
RECURSIVE Ascending(_)
Ascending(S) ==
    IF S = {} THEN <<>>
    ELSE LET m == CHOOSE x \in S : \A y \in S : x <= y
         IN  <<m>> \o Ascending(S \ {m})

\* the assignments that give every shard to exactly one host
Assignments ==
    {[h \in Hosts |-> Ascending({sh \in ShardIDs : f[sh] = h})] :
        f \in [ShardIDs -> Hosts]}

\* the input query carries any Shards slice: any length within any
\* capacity, the cells past the length being zero
PlanInit ==
    /\ \E c \in 0..MaxInputCap : \E l \in 0..c : \E v \in [1..l -> ShardIDs] :
          /\ heap = <<[p \in 1..c |-> IF p <= l THEN v[p] ELSE 0]>>
          /\ inShards = Slice(1, l, c)
          /\ inContents = v
    /\ assignment \in Assignments
    /\ ppc = "start"
    /\ todo = Hosts
    /\ planNodes = <<>>

PlanIdle ==
    /\ heap = <<<<>>>>
    /\ inShards = Slice(1, 0, 0)
    /\ inContents = <<>>
    /\ assignment = [h \in Hosts |-> <<>>]
    /\ ppc = "idle"
    /\ todo = {}
    /\ planNodes = <<>>

\* NewNonAggQueryPlan, lines 66-81: the assignment, or its error
CalculateShardAssignment ==
    /\ ppc = "start"
    /\ \E ok \in BOOLEAN : ppc' = IF ok THEN "range" ELSE "failed"
    /\ UNCHANGED <<heap, inShards, inContents, assignment, todo, planNodes>>

\* NewNonAggQueryPlan, lines 83-95: one pass of the range loop, for a host
\* the map iteration yields; q := *qc.AQLQuery copies the slice header
AddNode ==
    /\ ppc = "range"
    /\ \E host \in todo :
        LET q == AppendAll([sl |-> inShards, h |-> heap], assignment[host]) IN
        /\ heap' = q.h
        /\ planNodes' = Append(planNodes, [host |-> host, Shards |-> q.sl])
        /\ todo' = todo \ {host}
    /\ UNCHANGED <<inShards, inContents, assignment, ppc>>

\* NewNonAggQueryPlan, line 97
PlanReturn ==
    /\ ppc = "range"
    /\ todo = {}
    /\ ppc' = "done"
    /\ UNCHANGED <<heap, inShards, inContents, assignment, todo, planNodes>>

PlanNext ==
    \/ CalculateShardAssignment /\ UNCHANGED <<execVars, topoVars, valVars, mergeVars>>
    \/ AddNode /\ UNCHANGED <<execVars, topoVars, valVars, mergeVars>>
    \/ PlanReturn /\ UNCHANGED <<execVars, topoVars, valVars, mergeVars>>

\* ---------------------------------------------------------------- specifications
ExecStart == ExecInit /\ TopoIdle /\ ValIdle /\ MergeIdle /\ PlanIdle
TopoStart == TopoInit /\ ExecIdle /\ ValIdle /\ MergeIdle /\ PlanIdle
ValStart == ValInit /\ ExecIdle /\ TopoIdle /\ MergeIdle /\ PlanIdle
MergeStart == MergeInit /\ ExecIdle /\ TopoIdle /\ ValIdle /\ PlanIdle
PlanStart == PlanInit /\ ExecIdle /\ TopoIdle /\ ValIdle /\ MergeIdle

ExecSpec == ExecStart /\ [][ExecNext]_vars
\* every goroutine that can take a step is scheduled
FairExecSpec == ExecSpec /\ WF_vars(ExecNext)
\* Execute under a context its caller may cancel
CancelSpec == ExecStart /\ [][CancelNext]_vars
TopoSpec == TopoStart /\ [][TopoNext]_vars
\* the goroutine of the update loop is scheduled whenever it can take a step
FairTopoSpec == TopoSpec /\ WF_vars(run)
ValidateSpec == ValStart /\ [][ValNext]_vars
MergeSpec == MergeStart /\ [][MergeNext]_vars
PlanSpec == PlanStart /\ [][PlanNext]_vars

\* ---------------------------------------------------------------- helpers
Min(a, b) == IF a <= b THEN a ELSE b

RowCount(b) == Cardinality({p \in 1..Len(b) : IsRow(b[p])})

RECURSIVE SumRows(_)
SumRows(n) == IF n = 0 THEN 0 ELSE nodeRows[n] + SumRows(n - 1)
TotalRows == SumRows(NumNodes)

Contains(b, t) == \E p \in 1..Len(b) : b[p] = t

Spawned == \A n \in Nodes : wpc[n] # "idle"

\* the response is complete: pre-amble, something, post-amble
Complete == /\ Len(body) >= 4
            /\ SubSeq(body, 1, 3) = <<PRE1, HDRS, PRE2>>
            /\ body[Len(body)] = POST

\* what a complete response holds between "matrixData":[ and ]}
MatrixData == SubSeq(body, 4, Len(body) - 1)

\* ---------------------------------------------------------------- claims

\* C1: with limit >= 0 the number of rows flushed never exceeds limit, so
\* getRowsWanted() is never negative, whatever the partials and their order.
C1_FlushedAtMostLimit ==
    limit >= 0 =>
        /\ flushed <= limit
        /\ getRowsWanted >= 0
        /\ RowCount(body) <= flushed

\* a partial of two or more rows was cut to fit the limit
C1_CutBatchFlushed ==
    /\ limit > 0
    /\ flushed = limit
    /\ \E n \in Nodes : /\ nodeRows[n] >= 2
                         /\ Contains(body, Row(n, 1))
                         /\ ~Contains(body, Row(n, nodeRows[n]))

\* C2: with limit >= 0 and only valid partials, a successful Execute has
\* written exactly min(limit, total rows of all partials) rows to the body.
C2_ExactRowCount ==
    (limit >= 0 /\ ~sawFault /\ rpc = "done" /\ ret = "nil")
        => RowCount(body) = Min(limit, TotalRows)

\* C3: once the limit is satisfied, every worker that was started finishes
\* (none stays blocked on the result channel).
C3_WorkersFinish ==
    (Spawned /\ limit >= 0 /\ flushed = limit) ~> (\A n \in Nodes : wpc[n] = "done")

\* C4: when the reducer consumed a result that carries a worker error,
\* Execute returns a non-nil error and the post-amble is never written.
C4_WorkerErrorReturned ==
    (exitAt = "workerErr" /\ rpc = "done")
        => (ret # "nil" /\ ~Contains(body, POST))

\* C5: in a complete response the rows between "matrixData":[ and ]} are
\* separated by single commas: no leading, trailing or doubled comma.
C5_CommasSeparateRows ==
    (~sawFault /\ ~wfailed /\ rpc = "done" /\ ret = "nil" /\ Complete)
        => WellFormed(MatrixData)

\* C6: a failed Write is terminal: no Write is called after it and Execute
\* returns a non-nil error.
C6_WriteFailureTerminal ==
    wfailed => (~lateWrite /\ (rpc = "done" => ret # "nil"))

\* the number of instances of a service that declare shard i
Declaring(instances, i) ==
    Cardinality({k \in 1..Len(instances) : ~instances[k].isnil /\ i \in instances[k].ids})

\* the number of host shard sets of a map that hold shard i
Holding(m, i) ==
    Cardinality({k \in 1..Len(m.hostShardSets) : i \in m.hostShardSets[k]})

Expected(service) == 0..(service.numShards - 1)

NoNilShards(service) == \A k \in 1..Len(service.instances) : ~service.instances[k].isnil

\* the expected shard IDs declared fewer than replicas times
Short(service) ==
    {i \in Expected(service) : Declaring(service.instances, i) < service.replicas}

\* some instance declares a shard ID that is not expected
DeclaresUnexpected(service) ==
    \E k \in 1..Len(service.instances) :
        \E i \in service.instances[k].ids : i \notin Expected(service)

Lowest(S) == CHOOSE i \in S : \A j \in S : i <= j

Validated == vout.called = "validateInstances"

\* C7: a placement validateInstances accepts, and a snapshot getMapFromUpdate
\* builds for publication, has every shard ID of [0, numShards) on at least
\* `replicas` instances.
C7_AcceptedHasReplicas ==
    /\ (Validated /\ vout.err = "nil") =>
           /\ vout.ids = [j \in 1..vin.numShards |-> j - 1]
           /\ \A i \in Expected(vin) : Declaring(vin.instances, i) >= vin.replicas
    /\ (vout.called = "getMapFromUpdate" /\ vout.err = "nil") =>
           /\ vout.m.replicas = vin.replicas
           /\ Len(vout.m.shardSet) = vin.numShards
           /\ \A j \in 1..Len(vout.m.shardSet) :
                  Holding(vout.m, vout.m.shardSet[j]) >= vout.m.replicas

\* a placement of two shards with two replicas each is accepted
C7_ReplicatedAccepted ==
    /\ Validated
    /\ vout.err = "nil"
    /\ vin.numShards >= 2
    /\ vin.replicas >= 2

\* the topology is open and its update loop has consumed every notification
Quiescent == tpc = "recv" /\ ~upNotify /\ ~upClosed /\ ~closed

\* C8 (as stated): once the update loop has caught up, Get() returns the
\* snapshot of the most recent upstream update that passed validation.
C8_PublishedIsLastValidUpdate ==
    Quiescent => published = lastValid

\* C8 (amended): once the update loop has caught up, Get() returns the
\* snapshot of the latest upstream value if that value passes validation; a
\* value the loop reads replaces the snapshot if it passes validation and
\* leaves it unchanged if it fails, and nothing else changes the snapshot.
C8_ReadValueDecides ==
    /\ [](Quiescent /\ getMapFromUpdate(upLatest).err = "nil"
            => published = getMapFromUpdate(upLatest).m)
    /\ [][/\ (tpc = "got" /\ tpc' = "run" /\ ~closed) =>
                published' = IF getMapFromUpdate(upLatest).err = "nil"
                             THEN getMapFromUpdate(upLatest).m
                             ELSE published
          /\ (tpc # "got" /\ tpc # "newGot") => published' = published
          /\ tpc' = tpc => published' = published]_vars

\* the loop has read a value that fails validation and a snapshot is still
\* published
C8_InvalidUpdateRetained ==
    /\ Quiescent
    /\ getMapFromUpdate(upLatest).err # "nil"
    /\ published.set

\* C9: with no nil shard list and some expected shard ID declared fewer than
\* `replicas` times, validateInstances fails with MissingShard if the lowest
\* such ID is declared by no instance, else with NotEnoughReplicas.
C9_LowestShortShardDecides ==
    (Validated /\ NoNilShards(vin) /\ Short(vin) # {}) =>
        vout.err = IF Declaring(vin.instances, Lowest(Short(vin))) = 0
                   THEN "MissingShard"
                   ELSE "NotEnoughReplicas"

\* shard 0 has its replicas, shard 1 is declared but too rarely
C9_SecondShardShort ==
    /\ Validated
    /\ NoNilShards(vin)
    /\ Short(vin) # {}
    /\ Lowest(Short(vin)) = 1
    /\ vout.err = "NotEnoughReplicas"

\* C10 (as stated): validateInstances fails with UnexpectedShard whenever
\* some instance declares an ID outside [0, numShards) while every ID of
\* [0, numShards) is declared at least `replicas` times; no accepted
\* placement holds an ID outside [0, numShards).
C10_UnexpectedShardRejected ==
    /\ (Validated /\ DeclaresUnexpected(vin) /\ Short(vin) = {})
            => vout.err = "UnexpectedShard"
    /\ (Validated /\ vout.err = "nil") => ~DeclaresUnexpected(vin)

\* C10 (amended): the same, provided no instance has a nil shard list and
\* every ID of [0, numShards) is declared at least once.
C10_UnexpectedShardRejectedAmended ==
    /\ (/\ Validated
        /\ NoNilShards(vin)
        /\ \A i \in Expected(vin) : Declaring(vin.instances, i) >= 1
        /\ DeclaresUnexpected(vin)
        /\ Short(vin) = {})
            => vout.err = "UnexpectedShard"
    /\ (Validated /\ vout.err = "nil") => ~DeclaresUnexpected(vin)

\* every expected shard has its replicas and one instance declares one more
C10_ExtraShardDeclared ==
    /\ Validated
    /\ vin.numShards >= 1
    /\ vin.replicas >= 1
    /\ DeclaresUnexpected(vin)
    /\ Short(vin) = {}
    /\ vout.err = "UnexpectedShard"

\* C11: validateInstances fails with InstanceHasNoShards whenever some
\* instance has a nil shard list, whatever the other instances declare and
\* whatever replicas and numShards are: the error comes before MissingShard,
\* NotEnoughReplicas and UnexpectedShard.
C11_NilShardListFirst ==
    (Validated /\ ~NoNilShards(vin)) =>
        (vout.err = "InstanceHasNoShards" /\ vout.ids = <<>>)

\* a later instance has no shard list, and the placement also misses an
\* expected shard and declares an unexpected one
C11_NilAmongOtherDefects ==
    /\ Validated
    /\ ~vin.instances[1].isnil
    /\ vin.instances[Len(vin.instances)].isnil
    /\ \E i \in Expected(vin) : Declaring(vin.instances, i) = 0
    /\ \E i \in vin.instances[1].ids : i \notin Expected(vin)
    /\ vout.err = "InstanceHasNoShards"

\* StreamingScanNode.Execute of node n has returned and the closure has not
\* yet read err: trial, fetchErr, wbs and serr are as the call left them
Returned(n) == wpc[n] = "built"

\* C12: one call of StreamingScanNode.Execute issues at least one and at most
\* rpcRetries QueryRaw attempts; an attempt after the first is issued only
\* when the previous attempt returned an error.
C12_BoundedAttempts ==
    /\ [](\A n \in Nodes :
            /\ trial[n] <= rpcRetries
            /\ Returned(n) => trial[n] >= 1
            /\ (Returned(n) /\ trial[n] < rpcRetries) => fetchErr[n] = "nil")
    /\ [][\A n \in Nodes :
            trial'[n] = trial[n] + 1 => (trial[n] = 0 \/ fetchErr[n] # "nil")]_vars

\* one call returned after the first attempt, another used every attempt
C12_OneAndAllAttempts ==
    \E n, k \in Nodes :
        /\ Returned(n) /\ trial[n] = 1 /\ fetchErr[n] = "nil"
        /\ Returned(k) /\ trial[k] = rpcRetries /\ fetchErr[k] # "nil"

\* C13: once ctx is cancelled, a StreamingScanNode.Execute call that has
\* made an attempt issues no further QueryRaw attempt: the remaining retries
\* are aborted.
C13_NoAttemptAfterCancel ==
    [][\A n \in Nodes :
        (cancelled /\ trial[n] >= 1) => trial'[n] <= trial[n]]_vars

\* C14: when the final QueryRaw attempt returned an error, Execute of the
\* node returns a non-nil error, with or without bytes from that attempt.
C14_FinalErrorSurfaces ==
    \A n \in Nodes : (Returned(n) /\ fetchErr[n] # "nil") => serr[n] # "nil"

\* the update loop of the topology has been started and has not ended
Looping == tpc \in {"run", "recv", "got"}

\* C15: over any number of Close calls, by users of the topology and by the
\* update loop, the placement watch and the watchable are each closed
\* exactly once, with the first call, and the topology stays closed.
C15_CloseIdempotent ==
    /\ [](/\ watchCloses = (IF closed THEN 1 ELSE 0)
          /\ watchableCloses = (IF closed THEN 1 ELSE 0)
          /\ closeCalls > 0 => closed)
    /\ [][closed => closed']_vars

\* the loop closed the topology on a closed channel and users called Close
\* as often as the bound allows
C15_ClosedManyTimes ==
    /\ closed
    /\ tpc = "stopped"
    /\ closeCalls = MaxCloseCalls
    /\ watchCloses = 1
    /\ watchableCloses = 1

\* C16: once the channel of the placement watch is closed, the update loop
\* eventually closes the topology and ends, and no snapshot is published
\* once the topology is closed.
C16_UpstreamCloseStopsLoop ==
    /\ (upClosed /\ Looping) ~> (closed /\ tpc = "stopped")
    /\ [][closed => published' = published]_vars
    /\ [][tpc = "stopped" => tpc' = "stopped"]_vars

\* the placement store closed the channel and the loop, not a user, closed
\* the topology, which keeps its last snapshot
C16_LoopClosedTopology ==
    /\ upClosed
    /\ closed
    /\ closeCalls = 0
    /\ tpc = "stopped"
    /\ published.set

\* C17: when the first value read at initialization fails validation,
\* newDynamicTopology and Init return the error: nothing is published, no
\* update loop is started, the initializer caches nothing, and a later Init
\* runs newDynamicTopology again.
C17_InvalidFirstValueFailsInit ==
    /\ [](tpc = "failed" =>
            /\ ~itopo
            /\ ~published.set
            /\ ~closed
            /\ initCalls < MaxInits => ENABLED InitRetry)
    /\ [][(tpc = "newGot" /\ tpc' # "newGot") =>
            IF getMapFromUpdate(upLatest).err # "nil"
            THEN tpc' = "failed" /\ ~itopo' /\ published' = published
            ELSE tpc' = "run" /\ itopo' /\ published' = getMapFromUpdate(upLatest).m]_vars
    /\ [][tpc = "failed" => (tpc' \in {"failed", "new"} /\ published' = published)]_vars

\* a second Init call, after the first failed on an invalid placement, waits
\* for the first value of its new watch
C17_SecondInitAfterFailure ==
    /\ initCalls = 2
    /\ tpc = "new"
    /\ ~itopo
    /\ ~published.set

Preamble == <<PRE1, HDRS, PRE2>>

\* the three writes of the pre-amble succeeded
PreambleWritten == Len(body) >= 3 /\ SubSeq(body, 1, 3) = Preamble

\* the loop of lines 150-204 has ended by its test or by the break of line
\* 153, not by a return
LoopEnded == PreambleWritten /\ (idx >= NumNodes \/ getRowsWanted = 0)

\* C18: the pre-amble is written once, in order and before anything else;
\* the post-amble is written at most once and nothing after it; the
\* post-amble is written exactly when the reducer left the loop because the
\* limit was satisfied or every partial was consumed.
C18_ResponseOrder ==
    /\ \A p \in 1..Len(body) :
          /\ p <= 3 => body[p] = Preamble[p]
          /\ p > 3 => (body[p] \notin {PRE1, HDRS, PRE2})
          /\ body[p] = POST => (p = Len(body) /\ LoopEnded)
    /\ rpc = "done" => (exitAt = "end" <=> LoopEnded)
    /\ (rpc = "done" /\ ~wfailed) => (Complete <=> LoopEnded)

\* a response that was closed after the limit cut the stream short
C18_ClosedOnLimit ==
    /\ rpc = "done"
    /\ Complete
    /\ limit > 0
    /\ flushed = limit
    /\ idx < NumNodes
    /\ RowCount(body) = limit

\* C19: in unlimited mode without worker error the reducer consumes one
\* result from every node, and each result it takes from the channel adds
\* its bytes, unchanged, to the response, followed by a comma unless it is
\* the last result of the loop.
C19_UnlimitedPassThrough ==
    /\ []((limit < 0 /\ rpc = "done" /\ exitAt = "end") =>
            (idx = NumNodes /\ \A n \in Nodes : wpc[n] = "done"))
    /\ []((limit < 0 /\ rpc = "done") => exitAt \in {"preamble", "workerErr", "end"})
    /\ [][\A n \in Nodes :
            (/\ limit < 0
             /\ wpc[n] = "send" /\ wpc'[n] = "done"
             /\ wmsgErr[n] = "nil"
             /\ ~wfailed')
            => /\ idx' = idx + 1
               /\ body' = body \o wbs[n].b \o
                            (IF idx = NumNodes - 1 THEN <<>> ELSE <<COMMA>>)]_vars

\* the partial of the second node arrived first, and both are in the response
C19_ArrivalOrderKept ==
    /\ limit < 0
    /\ rpc = "done"
    /\ Complete
    /\ nodeRows[1] >= 1 /\ nodeRows[2] >= 1
    /\ MatrixData = Partial(2, nodeRows[2]) \o <<COMMA>> \o Partial(1, nodeRows[1])

\* C20: under Sum, Count, Min and Max the merged tree has at every level the
\* union of the two key sets; a key of one side only carries that side's
\* subtree unchanged, a key of both sides carries the merge of the children.
C20_LenientUnion ==
    (mpc = "done" /\ Lenient(agg)) =>
        /\ merged.err = "nil"
        /\ DOMAIN merged.tree = DOMAIN lhs \cup DOMAIN rhs
        /\ \A k \in DOMAIN lhs \ DOMAIN rhs : merged.tree[k] = lhs[k]
        /\ \A k \in DOMAIN rhs \ DOMAIN lhs : merged.tree[k] = rhs[k]
        /\ \A k \in DOMAIN lhs \cap DOMAIN rhs :
              /\ DOMAIN merged.tree[k] = DOMAIN lhs[k] \cup DOMAIN rhs[k]
              /\ \A j \in DOMAIN lhs[k] \ DOMAIN rhs[k] :
                    merged.tree[k][j] = lhs[k][j]
              /\ \A j \in DOMAIN rhs[k] \ DOMAIN lhs[k] :
                    merged.tree[k][j] = rhs[k][j]
              /\ \A j \in DOMAIN lhs[k] \cap DOMAIN rhs[k] :
                    merged.tree[k][j] = MergeLeaf(agg, lhs[k][j], rhs[k][j])

\* "max should work different shape": {"1234": {"foo": 2}} merged with
\* {"1234": {"foo": 1, "bar": 1}} gives {"1234": {"foo": 2, "bar": 1}}
C20_MaxDifferentShape ==
    /\ mpc = "done"
    /\ agg = "Max"
    /\ lhs = [k \in {"1234"} |-> [j \in {"foo"} |-> 2]]
    /\ rhs = [k \in {"1234"} |-> [j \in {"foo", "bar"} |-> 1]]
    /\ merged.err = "nil"
    /\ merged.tree = [k \in {"1234"} |-> [j \in {"foo", "bar"} |->
                                              IF j = "foo" THEN 2 ELSE 1]]

\* the paths to the leaves that both trees hold
CommonPaths ==
    {<<k, j>> \in OuterKeys \X InnerKeys :
        /\ k \in DOMAIN lhs /\ k \in DOMAIN rhs
        /\ j \in DOMAIN lhs[k] /\ j \in DOMAIN rhs[k]}

\* the two trees have the same key set at every level
SameShape ==
    /\ DOMAIN lhs = DOMAIN rhs
    /\ \A k \in DOMAIN lhs : DOMAIN lhs[k] = DOMAIN rhs[k]

\* C21: two leaves a and b at the same path merge to a + b under Sum and
\* Count, to the smaller one under Min and to the larger one under Max.
C21_LeafCombiner ==
    (mpc = "done" /\ Lenient(agg)) =>
        /\ merged.err = "nil"
        /\ \A p \in CommonPaths :
              LET a == lhs[p[1]][p[2]]
                  b == rhs[p[1]][p[2]]
                  r == merged.tree[p[1]][p[2]]
              IN  /\ agg \in {"Sum", "Count"} => r = a + b
                  /\ agg = "Min" => (r \in {a, b} /\ r <= a /\ r <= b)
                  /\ agg = "Max" => (r \in {a, b} /\ r >= a /\ r >= b)

\* Min of 2 and 1 at "1234"/"foo" is 1, of 1 and 2 at "1234"/"bar" is 1
C21_MinOfDifferentLeaves ==
    /\ mpc = "done"
    /\ agg = "Min"
    /\ CommonPaths = {<<"1234", "foo">>, <<"1234", "bar">>}
    /\ lhs["1234"]["foo"] = 2 /\ rhs["1234"]["foo"] = 1
    /\ lhs["1234"]["bar"] = 1 /\ rhs["1234"]["bar"] = 2
    /\ merged.tree["1234"]["foo"] = 1
    /\ merged.tree["1234"]["bar"] = 1

\* C22: under Avg a merge of two trees whose key sets differ at some level,
\* an empty tree against a non-empty one included, fails with
\* "error calculating avg".
C22_AvgShapeMismatch ==
    (mpc = "done" /\ agg = "Avg" /\ ~SameShape) =>
        merged.err = "error calculating avg"

\* "avg should error different shape": the key sets differ below a common
\* key, and in another run one side is empty
C22_AvgInnerKeysDiffer ==
    /\ mpc = "done"
    /\ agg = "Avg"
    /\ lhs = [k \in {"1234"} |-> [j \in {"foo"} |-> 2]]
    /\ rhs = [k \in {"1234"} |-> [j \in {"foo", "bar"} |-> 1]]
    /\ merged.err = "error calculating avg"

C24_Commutative ==
    (mpc = "done" /\ Lenient(agg)) => merged = MergeTree(agg, 2, rhs, lhs)

\* two trees that differ in keys and in leaves were merged
C24_DifferentOperands ==
    /\ mpc = "done"
    /\ agg = "Max"
    /\ DOMAIN lhs # DOMAIN rhs
    /\ \E p \in CommonPaths : lhs[p[1]][p[2]] > rhs[p[1]][p[2]]
    /\ \E p \in CommonPaths : lhs[p[1]][p[2]] < rhs[p[1]][p[2]]

\* C25: under a lenient operator the merge of a tree with the empty tree,
\* on either side, is that tree, without error; two empty trees give the
\* empty tree.
C25_EmptyIsIdentity ==
    (mpc = "done" /\ Lenient(agg)) =>
        /\ rhs = EmptyTree => merged = Merged("nil", lhs)
        /\ lhs = EmptyTree => merged = Merged("nil", rhs)

\* the empty tree on the left, a tree with two outer keys on the right
C25_EmptyLeft ==
    /\ mpc = "done"
    /\ agg = "Count"
    /\ lhs = EmptyTree
    /\ DOMAIN rhs = OuterKeys
    /\ merged = Merged("nil", rhs)

Range(f) == {f[p] : p \in DOMAIN f}

\* the cells of the backing arrays a slice shows
Cells(sl) == {<<sl.arr, p>> : p \in 1..sl.len}

\* C26: NewNonAggQueryPlan builds one node per host of the assignment; the
\* Shards of a node's query are exactly the shards assigned to its host and
\* share nothing with another node's; every assigned shard is queried once;
\* the Shards of the input query are unchanged.
C26_OneNodePerHost ==
    ppc = "done" =>
        /\ Len(planNodes) = NumHosts
        /\ {planNodes[i].host : i \in 1..Len(planNodes)} = Hosts
        /\ \A i \in 1..Len(planNodes) :
              Contents(heap, planNodes[i].Shards) = assignment[planNodes[i].host]
        /\ \A i, j \in 1..Len(planNodes) :
              i # j => Cells(planNodes[i].Shards) \cap Cells(planNodes[j].Shards) = {}
        /\ \A sh \in ShardIDs :
              Cardinality({i \in 1..Len(planNodes) :
                  sh \in Range(Contents(heap, planNodes[i].Shards))}) = 1
        /\ Contents(heap, inShards) = inContents

\* C27: when a QueryRaw attempt returned no error, StreamingScanNode.Execute
\* returns the bytes of that attempt with a nil error, whatever the earlier
\* attempts returned, nil bytes after a failed attempt included.
C27_SuccessClearsError ==
    \A n \in Nodes : (Returned(n) /\ fetchErr[n] = "nil") => serr[n] = "nil"

\* the workers whose result the reducer has received
Delivered == {n \in Nodes : wpc[n] = "done"}

\* the reducer is blocked on the receive of line 151
Receiving == rpc = "loop" /\ idx < NumNodes /\ getRowsWanted # 0

\* C28: every QueryRaw call returning, NonAggQueryPlan.Execute eventually
\* returns: each worker started comes to its one send and never sends again, the
\* reducer takes at most one result per node, and whenever the reducer
\* waits for a result some worker has still to send one.
C28_ExecuteReturns ==
    /\ <>(rpc = "done")
    /\ \A n \in Nodes : (wpc[n] # "idle") ~> (wpc[n] \in {"send", "done"})
    /\ [][\A n \in Nodes :
            /\ wpc[n] = "done" => wpc'[n] = "done"
            /\ (wpc[n] # "done" /\ wpc'[n] = "done") => (wpc[n] = "send" /\ Receiving)]_vars
    /\ [](idx <= Cardinality(Delivered))
    /\ [](Receiving => \E n \in Nodes : n \notin Delivered)

\* Execute returned after it received the result of every node
C28_AllReceived ==
    /\ rpc = "done"
    /\ idx = NumNodes
    /\ Delivered = Nodes
====
